---- MODULE Spec2Model ----
(***************************************************************************)
(* The AI debate application: the zustand store (debate-store), the debate *)
(* engine (debate-engine: getNextTurn, shouldAdvanceRound,                 *)
(* shouldAdvanceStage, checkConsensus, ...) and the controller of the      *)
(* debate view (runTurn and the effect that schedules it), with the setup  *)
(* pages that lead into a debate.                                          *)
(*                                                                         *)
(* A message's id and timestamp (Date.now()) are left out: nothing in the  *)
(* engine or the controller reads them.  A message's content is kept as    *)
(* its length and the index of its first '[CONSENSUS]' marker (-1 when it  *)
(* has none), which is all that includes(), slice() and length read.       *)
(*                                                                         *)
(* runTurn is an async function: the part up to its first await is the     *)
(* action RunTurn, the part after the stream has ended is one of           *)
(* TurnSuccess, TurnCredentialError and TurnTransientError.  The timer of  *)
(* the scheduling effect is cleared and re-armed on every change of what   *)
(* runTurn reads, so a tick reads the current state.                       *)
(***************************************************************************)
EXTENDS Integers, Sequences, FiniteSets

\* ------------------------------------------------------------- bounds
\* At most this many models are selected for a debate.
MaxSelected == 2

\* The utterances of a session that carry the agreement marker all lie
\* within this many consecutive entries of the log.
MarkedWindow == 2

\* The longest log drawn as an input of the engine's functions (SpecPure).
MaxLen == 3

\* The longest log the store's operations build when called on their own
\* (SpecStore).
MaxStoreLen == 2

\* The highest token usage the store's operations build (SpecStore).
MaxStoreTokens == 2

\* At most this many calls of unmounted views are awaited at a time
\* (SpecReset).
MaxOrphans == 1

\* The longest log of a session that may be reset with a call in flight
\* (SpecReset).
MaxResetLog == 3

\* The longest log drawn as an input of buildContextMessages (SpecContext).
MaxContextLen == 6

\* The longest log drawn as an input of runTurn's decision (SpecDecide).
MaxDecideLen == 3

\* The longest log of a session whose streams may end without any text
\* (SpecEmpty).
MaxEmptyLog == 3

\* The most events a response stream drawn as an input carries before it
\* closes (SpecStream).
MaxEvents == 2

\* The longest log of a session whose streams are drawn event by event
\* (SpecStream).
MaxStreamLog == 3

\* The longest log drawn as the body of a summarize request
\* (SpecSummarize).
MaxSummarizeLen == 1

\* The most chunks a provider's generator yields for one chat request
\* (SpecChat).
MaxChunks == 5

\* The longest log of a session whose reset and unmounting are separate
\* steps (SpecWindow).
MaxWindowLog == 2

\* Longest log drawn for the proposal handed to a consensus turn
MaxProposalLen == 2

\* ---------------------------------------------------------- constants
Models == {"gpt", "gemini", "claude"}

MIN_CONSENSUS_ROUND == 3

RETRY_CEILING == 3

\* buildContextMessages: messages.slice(-5)
CONTEXT_WINDOW == 5

\* '[CONSENSUS]'.length
MARKER_LEN == 11

\* extractConsensusFromAll: m.content.slice(0, 10)
SLICE_END == 10

\* findCurrentConsensus: m.content.slice(0, 500)
PROPOSAL_SLICE_END == 500

\* STAGE_CONFIG[stage].maxRounds
maxRounds(s) ==
  CASE s = "position" -> 1
    [] s = "cross-exam" -> 4
    [] s = "common-ground" -> 2
    [] s = "consensus" -> 15
    [] OTHER -> 0

\* ------------------------------------------------------------ contents
\* A content: its length and the index of its first marker (-1: none).
Plain == [len |-> 5, at |-> -1]

Marked == [len |-> 16, at |-> 0]

\* A long content whose first marker begins after its 500th character
Late == [len |-> 520, at |-> 505]

\* The stream ended without a content fragment: fullContent is ''
Empty == [len |-> 0, at |-> -1]

Contents == {Plain, Marked}

\* content.includes('[CONSENSUS]')
includesMarker(c) == c.at >= 0

\* tokenEstimate rounding down
tokenEstimate_Floor(c) == c.len \div 4

\* Math.ceil(content.length / 4)
tokenEstimate(c) == (c.len + 3) \div 4

\* --------------------------------------------------------------- state
VARIABLES
  topic,            \* store: topic
  stage,            \* store: stage
  round,            \* store: round
  messages,         \* store: messages (the committed log)
  selectedModels,   \* store: selectedModels, in selection order
  status,           \* store: aiStates[m].status
  apiKey,           \* store: aiStates[m].apiKey
  tokenUsage,       \* store: aiStates[m].tokenUsage
  isPaused,         \* store: isPaused
  isComplete,       \* store: isComplete
  consensusReached, \* store: consensusReached
  page,             \* the mounted page: "/", "/select" or "/debate"
  showApiKeyModal,  \* ModelSelector: showApiKeyModal
  isRunning,        \* DebateView: isRunning
  retryCount,       \* DebateView: retryCount[m]
  apiError,         \* DebateView: apiError (the model it names, or "none")
  turn,             \* DebateView: the runTurn call awaiting its stream
  probe,            \* SpecPure: the results of the last engine call
  orphans,          \* the runTurn calls of unmounted views, still awaiting
  server            \* the request an API route is handling

storeVars == <<topic, stage, round, messages, selectedModels, status, apiKey,
               tokenUsage, isPaused, isComplete, consensusReached>>

viewVars == <<page, showApiKeyModal, isRunning, retryCount, apiError, turn>>

vars == <<topic, stage, round, messages, selectedModels, status, apiKey,
          tokenUsage, isPaused, isComplete, consensusReached, page,
          showApiKeyModal, isRunning, retryCount, apiError, turn, probe,
          orphans, server>>

NoTurn == [model |-> "none", stage |-> "none", round |-> 0, retry |-> 0]

NoProbe == [called |-> FALSE, consensus |-> FALSE, can |-> FALSE]

\* No request is being handled
NoServer == [pc |-> "idle"]

\* ------------------------------------------------------- sequence helpers
\* All sequences over S of length at most n
SeqsUpTo(S, n) == UNION {[1..k -> S] : k \in 0..n}

\* Array.prototype.includes on a sequence
SeqIncludes(s, x) == \E i \in 1..Len(s) : s[i] = x

\* --------------------------------------------------------- debate engine
Config == [selectedModels |-> selectedModels, messages |-> messages,
           stage |-> stage, round |-> round]

\* messages.filter((m) => m.stage === stage && m.round === round)
stageMessages(msgs, s, r) ==
  SelectSeq(msgs, LAMBDA m : m.stage = s /\ m.round = r)

\* getNextTurn taking the last model that has not spoken
getNextTurn_Last(cfg) ==
  IF cfg.stage \in {"result", "topic-input", "model-select"} THEN "none"
  ELSE LET sm == stageMessages(cfg.messages, cfg.stage, cfg.round)
           spoken == {sm[i].model : i \in 1..Len(sm)}
           cand == {i \in 1..Len(cfg.selectedModels) :
                      cfg.selectedModels[i] \notin spoken}
       IN IF cand = {} THEN "none"
          ELSE cfg.selectedModels[CHOOSE i \in cand : \A j \in cand : i >= j]

\* getNextTurn: the model of the next turn, "none" for null
getNextTurn(cfg) ==
  IF cfg.stage \in {"result", "topic-input", "model-select"} THEN "none"
  ELSE LET sm == stageMessages(cfg.messages, cfg.stage, cfg.round)
           spoken == {sm[i].model : i \in 1..Len(sm)}
           cand == {i \in 1..Len(cfg.selectedModels) :
                      cfg.selectedModels[i] \notin spoken}
       IN IF cand = {} THEN "none"
          ELSE cfg.selectedModels[CHOOSE i \in cand : \A j \in cand : i <= j]

\* shouldAdvanceRound with the count compared one too low
shouldAdvanceRound_Early(cfg) ==
  Len(stageMessages(cfg.messages, cfg.stage, cfg.round))
    >= Len(cfg.selectedModels) - 1

shouldAdvanceRound(cfg) ==
  Len(stageMessages(cfg.messages, cfg.stage, cfg.round))
    >= Len(cfg.selectedModels)

\* getNextStage over an order with cross-exam and common-ground swapped
getNextStage_Swapped(current) ==
  LET order == <<"position", "common-ground", "cross-exam", "consensus",
                 "result">>
      found == {i \in 1..Len(order) : order[i] = current}
      currentIndex == IF found = {} THEN 0 ELSE CHOOSE i \in found : TRUE
  IN IF currentIndex + 1 <= Len(order) THEN order[currentIndex + 1]
     ELSE "result"

\* getNextStage that passes over the stage after the current one
getNextStage_Skipping(current) ==
  LET order == <<"position", "cross-exam", "common-ground", "consensus",
                 "result">>
      found == {i \in 1..Len(order) : order[i] = current}
      currentIndex == IF found = {} THEN 0 ELSE CHOOSE i \in found : TRUE
  IN IF currentIndex + 2 <= Len(order) THEN order[currentIndex + 2]
     ELSE "result"

\* getNextStage: order[order.indexOf(current) + 1] || 'result'
getNextStage(current) ==
  LET order == <<"position", "cross-exam", "common-ground", "consensus",
                 "result">>
      found == {i \in 1..Len(order) : order[i] = current}
      \* indexOf is -1 when absent: 0 in 1-based indexing
      currentIndex == IF found = {} THEN 0 ELSE CHOOSE i \in found : TRUE
  IN IF currentIndex + 1 <= Len(order) THEN order[currentIndex + 1]
     ELSE "result"

\* shouldAdvanceStage: [advance, nextStage]
shouldAdvanceStage(cfg) ==
  IF cfg.round >= maxRounds(cfg.stage)
  THEN [advance |-> TRUE, nextStage |-> getNextStage(cfg.stage)]
  ELSE [advance |-> FALSE, nextStage |-> "none"]

\* the last consensus-stage message of a model, as a set (empty: undefined)
lastConsensusMessage(msgs, model) ==
  LET cm == SelectSeq(msgs, LAMBDA m : m.stage = "consensus")
      mm == SelectSeq(cm, LAMBDA m : m.model = model)
  IN IF Len(mm) = 0 THEN {} ELSE {mm[Len(mm)]}

\* checkConsensus without the floor on the round
checkConsensus_NoFloor(cfg) ==
  IF cfg.stage # "consensus" THEN FALSE
  ELSE \A i \in 1..Len(cfg.selectedModels) :
         LET last == lastConsensusMessage(cfg.messages, cfg.selectedModels[i])
         IN last # {} /\ \A m \in last : includesMarker(m.content)

\* checkConsensus that lets an agent without a consensus-stage message pass
checkConsensus_SilentAgrees(cfg) ==
  IF cfg.stage # "consensus" THEN FALSE
  ELSE IF cfg.round < MIN_CONSENSUS_ROUND THEN FALSE
  ELSE \A i \in 1..Len(cfg.selectedModels) :
         LET last == lastConsensusMessage(cfg.messages, cfg.selectedModels[i])
         IN \A m \in last : includesMarker(m.content)

\* checkConsensus with the floor one round lower
checkConsensus_FloorBelow(cfg) ==
  IF cfg.stage # "consensus" THEN FALSE
  ELSE IF cfg.round < MIN_CONSENSUS_ROUND - 1 THEN FALSE
  ELSE \A i \in 1..Len(cfg.selectedModels) :
         LET last == lastConsensusMessage(cfg.messages, cfg.selectedModels[i])
         IN last # {} /\ \A m \in last : includesMarker(m.content)

checkConsensus(cfg) ==
  IF cfg.stage # "consensus" THEN FALSE
  ELSE IF cfg.round < MIN_CONSENSUS_ROUND THEN FALSE
  ELSE \A i \in 1..Len(cfg.selectedModels) :
         LET last == lastConsensusMessage(cfg.messages, cfg.selectedModels[i])
         IN last # {} /\ \A m \in last : includesMarker(m.content)

\* canReachConsensus(round).canConsensus
canReachConsensus(r) == r >= MIN_CONSENSUS_ROUND

\* model.toUpperCase()
toUpperCase(model) ==
  CASE model = "gpt" -> "GPT"
    [] model = "gemini" -> "GEMINI"
    [] model = "claude" -> "CLAUDE"

\* buildContextMessages taking the first messages of the log
buildContextMessages_FirstFive(msgs, currentModel) ==
  LET n == Len(msgs)
      kept == SubSeq(msgs, 1, IF n > CONTEXT_WINDOW THEN CONTEXT_WINDOW ELSE n)
  IN [i \in 1..Len(kept) |->
        [role |-> IF kept[i].model = currentModel THEN "assistant"
                  ELSE "user",
         content |-> [author |-> toUpperCase(kept[i].model),
                      text |-> kept[i].content]]]

\* buildContextMessages: messages.slice(-5).map(...); the content
\* `[${m.model.toUpperCase()}]: ${m.content}` is kept as its two parts
buildContextMessages(msgs, currentModel) ==
  LET n == Len(msgs)
      kept == SubSeq(msgs, IF n > CONTEXT_WINDOW THEN n - CONTEXT_WINDOW + 1
                           ELSE 1, n)
  IN [i \in 1..Len(kept) |->
        [role |-> IF kept[i].model = currentModel THEN "assistant"
                  ELSE "user",
         content |-> [author |-> toUpperCase(kept[i].model),
                      text |-> kept[i].content]]]

\* getStageProgress: [current, max] (the label is a text of the stage)
getStageProgress(cfg) ==
  [current |-> Len(stageMessages(cfg.messages, cfg.stage, cfg.round)),
   max |-> Len(cfg.selectedModels)]

\* ---------------------------------------------------------- result summary
\* content.slice(0, n).includes('[CONSENSUS]'): a whole marker lies within
\* the first n characters
sliceIncludesMarker(c, n) ==
  /\ c.at >= 0
  /\ c.at + MARKER_LEN <= (IF n < c.len THEN n ELSE c.len)

\* findCurrentConsensus: the content of the last consensus-stage message
\* whose first 500 characters hold no marker (undefined: none found)
findCurrentConsensus(msgs) ==
  LET consensusMessages ==
        SelectSeq(msgs, LAMBDA m :
          /\ m.stage = "consensus"
          /\ ~sliceIncludesMarker(m.content, PROPOSAL_SLICE_END))
  IN IF consensusMessages = <<>> THEN [found |-> FALSE]
     ELSE [found |-> TRUE,
           content |-> consensusMessages[Len(consensusMessages)].content]

\* parseConsensusResponse(content).proposal || .raw: the text left of a
\* content once its first marker is taken out, and the content it is of
proposalOf(c) ==
  [len |-> IF c.at >= 0 THEN c.len - MARKER_LEN ELSE c.len, of |-> c]

\* The members of a set of indices in rising order
Ascending(S) ==
  [k \in 1..Cardinality(S) |->
     CHOOSE i \in S : Cardinality({j \in S : j < i}) = k - 1]

\* extractConsensusFromAll: the proposals joined by ' | ', as the sequence
\* of its parts (<<>> for the empty string)
extractConsensusFromAll(msgs, sel) ==
  LET cm == SelectSeq(msgs, LAMBDA m :
                        /\ m.stage = "consensus"
                        /\ sliceIncludesMarker(m.content, SLICE_END))
      proposals == [i \in 1..Len(cm) |-> proposalOf(cm[i].content)]
      \* [...new Set(proposals.filter(p => p))]
      keep == {i \in 1..Len(cm) :
                 /\ proposals[i].len > 0
                 /\ \A j \in 1..(i - 1) : proposals[j] # proposals[i]}
  IN IF Len(cm) = 0 THEN <<>>
     ELSE IF Len(cm) = 1 THEN <<proposals[1]>>
     ELSE IF \A i \in 1..Len(cm) : proposals[i] = proposals[1]
          THEN <<proposals[1]>>
     ELSE [k \in 1..Cardinality(keep) |-> proposals[Ascending(keep)[k]]]

\* ------------------------------------------------------------------ store
\* addMessage: messages: [...state.messages, message]
addMessage(msgs, message) == Append(msgs, message)

\* setAIStatus: aiStates[model].status := s
setAIStatus(st, model, s) == [st EXCEPT ![model] = s]

\* updateTokenUsage: aiStates[model].tokenUsage += tokens
updateTokenUsage(tu, model, tokens) == [tu EXCEPT ![model] = @ + tokens]

\* updateStreamingMessage: the content of the first message of the model
\* in the store's (stage, round) is replaced; without one, a message is
\* appended
updateStreamingMessage(msgs, s, r, model, content) ==
  LET found == {i \in 1..Len(msgs) :
                  msgs[i].model = model /\ msgs[i].stage = s
                    /\ msgs[i].round = r}
  IN IF found = {}
     THEN Append(msgs, [model |-> model, content |-> content,
                        stage |-> s, round |-> r])
     ELSE LET existingIndex == CHOOSE i \in found : \A j \in found : i <= j
          IN [msgs EXCEPT ![existingIndex] =
                [msgs[existingIndex] EXCEPT !.content = content]]

\* toggleModel: remove the model if selected, else append it
toggleModel(sel, model) ==
  IF SeqIncludes(sel, model) THEN SelectSeq(sel, LAMBDA m : m # model)
  ELSE Append(sel, model)

\* initialState of the store, and the state a mounting component starts in
Init ==
  /\ topic = ""
  /\ stage = "topic-input"
  /\ round = 0
  /\ messages = <<>>
  /\ selectedModels = <<>>
  /\ status = [m \in Models |-> "idle"]
  /\ apiKey = [m \in Models |-> ""]
  /\ tokenUsage = [m \in Models |-> 0]
  /\ isPaused = FALSE
  /\ isComplete = FALSE
  /\ consensusReached = FALSE
  /\ page = "/"
  /\ showApiKeyModal = FALSE
  /\ isRunning = FALSE
  /\ retryCount = [m \in Models |-> 0]
  /\ apiError = "none"
  /\ turn = NoTurn
  /\ probe = NoProbe
  /\ orphans = {}
  /\ server = NoServer

\* ------------------------------------------------------------ setup pages
\* TopicInput.handleNext with a non-blank input
handleNext ==
  /\ page = "/"
  /\ topic' = "T"
  /\ stage' = "model-select"
  /\ page' = "/select"
  /\ UNCHANGED <<round, messages, selectedModels, status, apiKey, tokenUsage,
                 isPaused, isComplete, consensusReached, showApiKeyModal,
                 isRunning, retryCount, apiError, turn, probe, orphans, server>>

\* ModelSelector.handleBack
handleBack ==
  /\ page = "/select"
  /\ ~showApiKeyModal
  /\ page' = "/"
  /\ UNCHANGED <<storeVars, showApiKeyModal, isRunning, retryCount, apiError,
                 turn, probe, orphans, server>>

\* ModelSelector: a click on a model's row
ToggleModel(m) ==
  /\ page = "/select"
  /\ ~showApiKeyModal
  /\ SeqIncludes(selectedModels, m) \/ Len(selectedModels) < MaxSelected
  /\ selectedModels' = toggleModel(selectedModels, m)
  /\ UNCHANGED <<topic, stage, round, messages, status, apiKey, tokenUsage,
                 isPaused, isComplete, consensusReached, viewVars, probe,
                 orphans, server>>

\* ModelSelector.handleStart
handleStart ==
  /\ page = "/select"
  /\ ~showApiKeyModal
  /\ Len(selectedModels) >= 2
  /\ showApiKeyModal' = TRUE
  /\ UNCHANGED <<storeVars, page, isRunning, retryCount, apiError, turn,
                 probe, orphans, server>>

\* ApiKeyModal: typing into the key field of a selected model; a key is
\* kept as what trim() leaves of it: "" or "K"
SetApiKey(m, key) ==
  /\ page = "/select"
  /\ showApiKeyModal
  /\ SeqIncludes(selectedModels, m)
  /\ apiKey' = [apiKey EXCEPT ![m] = key]
  /\ UNCHANGED <<topic, stage, round, messages, selectedModels, status,
                 tokenUsage, isPaused, isComplete, consensusReached, viewVars,
                 probe, orphans, server>>

\* ApiKeyModal.onClose (the cancel button, or the dialog dismissed)
onClose ==
  /\ page = "/select"
  /\ showApiKeyModal
  /\ showApiKeyModal' = FALSE
  /\ UNCHANGED <<storeVars, page, isRunning, retryCount, apiError, turn,
                 probe, orphans, server>>

\* allKeysEntered satisfied by the key of any one selected model
allKeysEntered_Any ==
  \E i \in 1..Len(selectedModels) : apiKey[selectedModels[i]] # ""

\* ApiKeyModal.allKeysEntered: every selected model has a key that is not
\* blank
allKeysEntered ==
  \A i \in 1..Len(selectedModels) : apiKey[selectedModels[i]] # ""

\* ApiKeyModal.handleStartDebate; the debate view mounts with fresh state
handleStartDebate ==
  /\ page = "/select"
  /\ showApiKeyModal
  /\ allKeysEntered
  /\ stage' = "position"
  /\ page' = "/debate"
  /\ showApiKeyModal' = FALSE
  /\ isRunning' = FALSE
  /\ retryCount' = [m \in Models |-> 0]
  /\ apiError' = "none"
  /\ UNCHANGED <<topic, round, messages, selectedModels, status, apiKey,
                 tokenUsage, isPaused, isComplete, consensusReached, turn,
                 probe, orphans, server>>

\* ------------------------------------------------------------ debate view
\* DebateView renders the arena (header, pause button, error modal) unless
\* it redirects (no topic, fewer than 2 models) or shows the result summary.
arenaShown ==
  /\ page = "/debate"
  /\ topic # ""
  /\ Len(selectedModels) >= 2
  /\ ~(isComplete \/ stage = "result")

\* tickEnabled without the check of isPaused
tickEnabled_IgnoresPause ==
  /\ page = "/debate"
  /\ ~isComplete
  /\ stage # "result"
  /\ ~isRunning

\* tickEnabled without the check of isRunning
tickEnabled_IgnoresRunning ==
  /\ page = "/debate"
  /\ ~isPaused
  /\ ~isComplete
  /\ stage # "result"

\* tickEnabled without the checks of isComplete and of the result stage
tickEnabled_IgnoresComplete ==
  /\ page = "/debate"
  /\ ~isPaused
  /\ ~isRunning

\* The scheduling effect arms the timer, and runTurn passes its guard.
tickEnabled ==
  /\ page = "/debate"
  /\ ~isPaused
  /\ ~isComplete
  /\ stage # "result"
  /\ ~isRunning

\* decide with the turn looked for before the stage and round checks
decide_TurnFirst(cfg) ==
  IF checkConsensus(cfg) THEN "consensus"
  ELSE IF getNextTurn(cfg) # "none" THEN "turn"
  ELSE IF shouldAdvanceStage(cfg).advance
            /\ shouldAdvanceStage(cfg).nextStage # "none"
       THEN IF shouldAdvanceStage(cfg).nextStage = "result" THEN "complete"
            ELSE "stage"
  ELSE IF shouldAdvanceRound(cfg) THEN "round"
  ELSE "none"

\* decide that takes the end of the last stage for an agreement
decide_ExhaustionAgrees(cfg) ==
  IF checkConsensus(cfg) THEN "consensus"
  ELSE IF shouldAdvanceStage(cfg).advance
            /\ shouldAdvanceStage(cfg).nextStage # "none"
       THEN IF shouldAdvanceStage(cfg).nextStage = "result" THEN "consensus"
            ELSE "stage"
  ELSE IF shouldAdvanceRound(cfg) THEN "round"
  ELSE IF getNextTurn(cfg) = "none" THEN "none"
  ELSE "turn"

\* The decision of runTurn, first match wins:
\*   "consensus"  setComplete(true)
\*   "complete"   setComplete(false)
\*   "stage"      setStage(nextStage); setRound(1)
\*   "round"      setRound(round + 1)
\*   "none"       getNextTurn returned null
\*   "turn"       the turn of getNextTurn is started
decide(cfg) ==
  IF checkConsensus(cfg) THEN "consensus"
  ELSE IF shouldAdvanceStage(cfg).advance
            /\ shouldAdvanceStage(cfg).nextStage # "none"
       THEN IF shouldAdvanceStage(cfg).nextStage = "result" THEN "complete"
            ELSE "stage"
  ELSE IF shouldAdvanceRound(cfg) THEN "round"
  ELSE IF getNextTurn(cfg) = "none" THEN "none"
  ELSE "turn"

\* runTurn up to its first await
RunTurn ==
  /\ tickEnabled
  /\ \E d \in {decide(Config)}, next \in {getNextTurn(Config)} :
        /\ isComplete' = (d \in {"consensus", "complete"})
        /\ consensusReached' =
             IF d = "consensus" THEN TRUE
             ELSE IF d = "complete" THEN FALSE ELSE consensusReached
        /\ stage' = IF d \in {"consensus", "complete"} THEN "result"
                    ELSE IF d = "stage"
                         THEN shouldAdvanceStage(Config).nextStage
                    ELSE stage
        /\ round' = IF d = "stage" THEN 1
                    ELSE IF d = "round" THEN round + 1 ELSE round
        /\ isRunning' = (d = "turn")
        /\ status' = IF d = "turn" THEN setAIStatus(status, next, "streaming")
                     ELSE status
        /\ turn' = IF d = "turn"
                   THEN [model |-> next, stage |-> stage, round |-> round,
                         retry |-> retryCount[next]]
                   ELSE turn
  /\ UNCHANGED <<topic, messages, selectedModels, apiKey, tokenUsage,
                 isPaused, page, showApiKeyModal, retryCount, apiError,
                 probe, orphans, server>>

\* Every marked entry of the log is among its last MarkedWindow - 1.
markerAllowed(msgs) ==
  \A i \in 1..Len(msgs) :
    includesMarker(msgs[i].content) => i > Len(msgs) + 1 - MarkedWindow

\* TurnSuccess that also moves the session to the next round
TurnSuccess_Advances(c) ==
  /\ turn # NoTurn
  /\ includesMarker(c) => markerAllowed(messages)
  /\ messages' = addMessage(messages, [model |-> turn.model, content |-> c,
                                       stage |-> turn.stage,
                                       round |-> turn.round])
  /\ status' = setAIStatus(status, turn.model, "complete")
  /\ tokenUsage' = updateTokenUsage(tokenUsage, turn.model, tokenEstimate(c))
  /\ retryCount' = [retryCount EXCEPT ![turn.model] = 0]
  /\ isRunning' = FALSE
  /\ turn' = NoTurn
  /\ round' = round + 1
  /\ UNCHANGED <<topic, stage, selectedModels, apiKey, isPaused,
                 isComplete, consensusReached, page, showApiKeyModal,
                 apiError, probe, orphans, server>>

\* TurnSuccess that leaves the retry counter as it is
TurnSuccess_KeepsRetry(c) ==
  /\ turn # NoTurn
  /\ includesMarker(c) => markerAllowed(messages)
  /\ messages' = addMessage(messages, [model |-> turn.model, content |-> c,
                                       stage |-> turn.stage,
                                       round |-> turn.round])
  /\ status' = setAIStatus(status, turn.model, "complete")
  /\ tokenUsage' = updateTokenUsage(tokenUsage, turn.model, tokenEstimate(c))
  /\ isRunning' = FALSE
  /\ turn' = NoTurn
  /\ UNCHANGED <<topic, stage, round, selectedModels, apiKey, isPaused,
                 isComplete, consensusReached, page, showApiKeyModal,
                 retryCount, apiError, probe, orphans, server>>

\* The stream ended without an error: the rest of the try block, finally.
TurnSuccess(c) ==
  /\ turn # NoTurn
  /\ includesMarker(c) => markerAllowed(messages)
  /\ messages' = addMessage(messages, [model |-> turn.model, content |-> c,
                                       stage |-> turn.stage,
                                       round |-> turn.round])
  /\ status' = setAIStatus(status, turn.model, "complete")
  /\ tokenUsage' = updateTokenUsage(tokenUsage, turn.model, tokenEstimate(c))
  /\ retryCount' = [retryCount EXCEPT ![turn.model] = 0]
  /\ isRunning' = FALSE
  /\ turn' = NoTurn
  /\ UNCHANGED <<topic, stage, round, selectedModels, apiKey, isPaused,
                 isComplete, consensusReached, page, showApiKeyModal,
                 apiError, probe, orphans, server>>

\* TurnCredentialError that also counts the failure as a retry
TurnCredentialError_Retries ==
  /\ turn # NoTurn
  /\ apiError' = turn.model
  /\ status' = setAIStatus(status, turn.model, "abstained")
  /\ retryCount' = [retryCount EXCEPT ![turn.model] = turn.retry + 1]
  /\ isRunning' = FALSE
  /\ turn' = NoTurn
  /\ UNCHANGED <<topic, stage, round, messages, selectedModels, apiKey,
                 tokenUsage, isPaused, isComplete, consensusReached, page,
                 showApiKeyModal, probe, orphans, server>>

\* The call failed and the message names an invalid credential ('401',
\* 'API key', 'Incorrect'): the first branch of catch, then finally.
TurnCredentialError ==
  /\ turn # NoTurn
  /\ apiError' = turn.model
  /\ status' = setAIStatus(status, turn.model, "abstained")
  /\ isRunning' = FALSE
  /\ turn' = NoTurn
  /\ UNCHANGED <<topic, stage, round, messages, selectedModels, apiKey,
                 tokenUsage, isPaused, isComplete, consensusReached, page,
                 showApiKeyModal, retryCount, probe, orphans, server>>

\* TurnTransientError that leaves the agent in status error
TurnTransientError_Error ==
  /\ turn # NoTurn
  /\ IF turn.retry < RETRY_CEILING
     THEN /\ retryCount' = [retryCount EXCEPT ![turn.model] = turn.retry + 1]
          /\ status' = setAIStatus(status, turn.model, "error")
          /\ UNCHANGED apiError
     ELSE /\ apiError' = turn.model
          /\ status' = setAIStatus(status, turn.model, "abstained")
          /\ UNCHANGED retryCount
  /\ isRunning' = FALSE
  /\ turn' = NoTurn
  /\ UNCHANGED <<topic, stage, round, messages, selectedModels, apiKey,
                 tokenUsage, isPaused, isComplete, consensusReached, page,
                 showApiKeyModal, probe, orphans, server>>

\* TurnTransientError that retries once more at the ceiling
TurnTransientError_NoCeiling ==
  /\ turn # NoTurn
  /\ IF turn.retry <= RETRY_CEILING
     THEN /\ retryCount' = [retryCount EXCEPT ![turn.model] = turn.retry + 1]
          /\ status' = setAIStatus(status, turn.model, "idle")
          /\ UNCHANGED apiError
     ELSE /\ apiError' = turn.model
          /\ status' = setAIStatus(status, turn.model, "abstained")
          /\ UNCHANGED retryCount
  /\ isRunning' = FALSE
  /\ turn' = NoTurn
  /\ UNCHANGED <<topic, stage, round, messages, selectedModels, apiKey,
                 tokenUsage, isPaused, isComplete, consensusReached, page,
                 showApiKeyModal, probe, orphans, server>>

\* The call failed with any other message: the rest of catch, then finally.
TurnTransientError ==
  /\ turn # NoTurn
  /\ IF turn.retry < RETRY_CEILING
     THEN /\ retryCount' = [retryCount EXCEPT ![turn.model] = turn.retry + 1]
          /\ status' = setAIStatus(status, turn.model, "idle")
          /\ UNCHANGED apiError
     ELSE /\ apiError' = turn.model
          /\ status' = setAIStatus(status, turn.model, "abstained")
          /\ UNCHANGED retryCount
  /\ isRunning' = FALSE
  /\ turn' = NoTurn
  /\ UNCHANGED <<topic, stage, round, messages, selectedModels, apiKey,
                 tokenUsage, isPaused, isComplete, consensusReached, page,
                 showApiKeyModal, probe, orphans, server>>

\* ------------------------------------------------------ the response stream
\* The events of a response stream, by what runTurn tells apart:
\*   "content"           data: {"content": <a fragment>}
\*   "error-credential"  data: {"error": m}, m includes '401', 'API key' or
\*                       'Incorrect' (and not 'JSON')
\*   "error-json"        data: {"error": m}, m includes 'JSON'
\*   "error-empty"       data: {"error": ""}
\*   "error-other"       data: {"error": m}, any other m
\* '[DONE]' and the closing of the stream end the sequence.
ErrorEvents == {"error-credential", "error-json", "error-empty",
                "error-other"}

StreamEvents == {"content"} \cup ErrorEvents

\* The streams of /api/chat: content events, then the stream closes after
\* '[DONE]' or after one error event
Streams ==
  {s \in SeqsUpTo(StreamEvents, MaxEvents) :
     \A i \in 1..Len(s) : s[i] \in ErrorEvents => i = Len(s)}

\* `if (parsed.error) throw new Error(parsed.error)` and the catch around it:
\* the error leaves the read loop unless its message is empty or includes
\* 'JSON'
rethrown(e) == e \in ErrorEvents \ {"error-json", "error-empty"}

\* The read loop over the events of a stream: the error that ends it
\* ("none": it reads to the end) and fullContent when it ends
readStream(events) ==
  LET thrown == {i \in 1..Len(events) : rethrown(events[i])}
      last == IF thrown = {} THEN Len(events)
              ELSE CHOOSE i \in thrown : \A j \in thrown : i <= j
      fragments == {i \in 1..last : events[i] = "content"}
  IN [thrown |-> IF thrown = {} THEN "none" ELSE events[last],
      fullContent |-> [len |-> Plain.len * Cardinality(fragments),
                       at |-> -1]]

\* One whole call: the stream is read, then the turn ends as runTurn's try,
\* catch and finally end it
TurnStream(events) ==
  \E r \in {readStream(events)} :
    IF r.thrown = "none"
    THEN Len(messages) < MaxStreamLog /\ TurnSuccess(r.fullContent)
    ELSE IF r.thrown = "error-credential" THEN TurnCredentialError
    ELSE TurnTransientError

\* The pause button of the arena (the error modal, once open, covers it).
TogglePause ==
  /\ arenaShown
  /\ apiError = "none"
  /\ isPaused' = ~isPaused
  /\ UNCHANGED <<topic, stage, round, messages, selectedModels, status,
                 apiKey, tokenUsage, isComplete, consensusReached, viewVars,
                 probe, orphans, server>>

\* reset() then router.push('/'), from the error modal or from the result
\* summary: the store returns to initialState and the debate view unmounts.
\* A call still in flight is left waiting for its stream.
Reset ==
  /\ page = "/debate"
  /\ \/ arenaShown /\ apiError # "none"
     \/ isComplete \/ stage = "result"
  /\ topic' = ""
  /\ stage' = "topic-input"
  /\ round' = 0
  /\ messages' = <<>>
  /\ selectedModels' = <<>>
  /\ status' = [m \in Models |-> "idle"]
  /\ apiKey' = [m \in Models |-> ""]
  /\ tokenUsage' = [m \in Models |-> 0]
  /\ isPaused' = FALSE
  /\ isComplete' = FALSE
  /\ consensusReached' = FALSE
  /\ page' = "/"
  /\ isRunning' = FALSE
  /\ retryCount' = [m \in Models |-> 0]
  /\ apiError' = "none"
  /\ turn' = NoTurn
  /\ UNCHANGED <<showApiKeyModal, probe, orphans, server>>

Next ==
  \/ handleNext
  \/ handleBack
  \/ \E m \in Models : ToggleModel(m)
  \/ handleStart
  \/ \E m \in Models, k \in {"", "K"} : SetApiKey(m, k)
  \/ onClose
  \/ handleStartDebate
  \/ RunTurn
  \/ \E c \in Contents : TurnSuccess(c)
  \/ TurnCredentialError
  \/ TurnTransientError
  \/ TogglePause
  \/ Reset

Spec == Init /\ [][Next]_vars

\* --------------------------------------------- the engine on drawn inputs
PureSelections == {<<"gpt", "gemini">>, <<"gpt", "gemini", "claude">>}

PureMessages == [model : Models, content : Contents,
                 stage : {"common-ground", "consensus"}, round : {1}]

\* A config as runTurn builds it, drawn from bounded sets
InitPure ==
  /\ topic = "T"
  /\ stage \in {"common-ground", "consensus"}
  /\ round \in 1..(MIN_CONSENSUS_ROUND + 1)
  /\ messages \in SeqsUpTo(PureMessages, MaxLen)
  /\ selectedModels \in PureSelections
  /\ status = [m \in Models |-> "idle"]
  /\ apiKey = [m \in Models |-> "K"]
  /\ tokenUsage = [m \in Models |-> 0]
  /\ isPaused = FALSE
  /\ isComplete = FALSE
  /\ consensusReached = FALSE
  /\ page = "/debate"
  /\ showApiKeyModal = FALSE
  /\ isRunning = FALSE
  /\ retryCount = [m \in Models |-> 0]
  /\ apiError = "none"
  /\ turn = NoTurn
  /\ probe = NoProbe
  /\ orphans = {}
  /\ server = NoServer

\* One call of checkConsensus(config) and of canReachConsensus(round)
ProbeConsensus ==
  /\ ~probe.called
  /\ probe' = [called |-> TRUE, consensus |-> checkConsensus(Config),
               can |-> canReachConsensus(round)]
  /\ UNCHANGED <<storeVars, viewVars, orphans, server>>

NextPure == ProbeConsensus

SpecPure == InitPure /\ [][NextPure]_vars

\* ------------------------------------ the store's operations on their own
\* Each operation of useDebateStore, called by any caller in any order, on
\* arguments drawn from small sets.
StoreModels == {"gpt"}

StoreSetTopic ==
  /\ topic' = "T"
  /\ UNCHANGED <<stage, round, messages, selectedModels, status, apiKey,
                 tokenUsage, isPaused, isComplete, consensusReached, viewVars,
                 probe, orphans, server>>

StoreSetStage ==
  /\ stage' = "position"
  /\ UNCHANGED <<topic, round, messages, selectedModels, status, apiKey,
                 tokenUsage, isPaused, isComplete, consensusReached, viewVars,
                 probe, orphans, server>>

StoreSetRound(r) ==
  /\ round' = r
  /\ UNCHANGED <<topic, stage, messages, selectedModels, status, apiKey,
                 tokenUsage, isPaused, isComplete, consensusReached, viewVars,
                 probe, orphans, server>>

StoreAddMessage(m, c) ==
  /\ Len(messages) < MaxStoreLen
  /\ messages' = addMessage(messages, [model |-> m, content |-> c,
                                       stage |-> stage, round |-> round])
  /\ UNCHANGED <<topic, stage, round, selectedModels, status, apiKey,
                 tokenUsage, isPaused, isComplete, consensusReached, viewVars,
                 probe, orphans, server>>

StoreUpdateStreamingMessage(m, c) ==
  /\ Len(updateStreamingMessage(messages, stage, round, m, c)) <= MaxStoreLen
  /\ messages' = updateStreamingMessage(messages, stage, round, m, c)
  /\ UNCHANGED <<topic, stage, round, selectedModels, status, apiKey,
                 tokenUsage, isPaused, isComplete, consensusReached, viewVars,
                 probe, orphans, server>>

StoreToggleModel(m) ==
  /\ selectedModels' = toggleModel(selectedModels, m)
  /\ UNCHANGED <<topic, stage, round, messages, status, apiKey, tokenUsage,
                 isPaused, isComplete, consensusReached, viewVars, probe,
                 orphans, server>>

StoreSetApiKey(m, key) ==
  /\ apiKey' = [apiKey EXCEPT ![m] = key]
  /\ UNCHANGED <<topic, stage, round, messages, selectedModels, status,
                 tokenUsage, isPaused, isComplete, consensusReached, viewVars,
                 probe, orphans, server>>

StoreSetAIStatus(m, st) ==
  /\ status' = setAIStatus(status, m, st)
  /\ UNCHANGED <<topic, stage, round, messages, selectedModels, apiKey,
                 tokenUsage, isPaused, isComplete, consensusReached, viewVars,
                 probe, orphans, server>>

StoreUpdateTokenUsage(m, tokens) ==
  /\ tokenUsage[m] + tokens <= MaxStoreTokens
  /\ tokenUsage' = updateTokenUsage(tokenUsage, m, tokens)
  /\ UNCHANGED <<topic, stage, round, messages, selectedModels, status,
                 apiKey, isPaused, isComplete, consensusReached, viewVars,
                 probe, orphans, server>>

StoreTogglePause ==
  /\ isPaused' = ~isPaused
  /\ UNCHANGED <<topic, stage, round, messages, selectedModels, status,
                 apiKey, tokenUsage, isComplete, consensusReached, viewVars,
                 probe, orphans, server>>

\* setComplete: isComplete: true, consensusReached, stage: 'result'
StoreSetComplete(reached) ==
  /\ isComplete' = TRUE
  /\ consensusReached' = reached
  /\ stage' = "result"
  /\ UNCHANGED <<topic, round, messages, selectedModels, status, apiKey,
                 tokenUsage, isPaused, viewVars, probe, orphans, server>>

\* reset: set(initialState)
StoreReset ==
  /\ topic' = ""
  /\ stage' = "topic-input"
  /\ round' = 0
  /\ messages' = <<>>
  /\ selectedModels' = <<>>
  /\ status' = [m \in Models |-> "idle"]
  /\ apiKey' = [m \in Models |-> ""]
  /\ tokenUsage' = [m \in Models |-> 0]
  /\ isPaused' = FALSE
  /\ isComplete' = FALSE
  /\ consensusReached' = FALSE
  /\ UNCHANGED <<viewVars, probe, orphans, server>>

NextStore ==
  \/ StoreSetTopic
  \/ StoreSetStage
  \/ \E r \in 0..1 : StoreSetRound(r)
  \/ \E m \in StoreModels, c \in Contents : StoreAddMessage(m, c)
  \/ \E m \in StoreModels, c \in Contents :
       StoreUpdateStreamingMessage(m, c)
  \/ \E m \in StoreModels : StoreToggleModel(m)
  \/ \E m \in StoreModels : StoreSetApiKey(m, "K")
  \/ \E m \in StoreModels : StoreSetAIStatus(m, "streaming")
  \/ \E m \in StoreModels : StoreUpdateTokenUsage(m, tokenEstimate(Plain))
  \/ StoreTogglePause
  \/ \E reached \in BOOLEAN : StoreSetComplete(reached)
  \/ StoreReset

SpecStore == Init /\ [][NextStore]_vars

\* ------------------------------------------- reset with a call in flight
\* reset() then router.push('/'): the store returns to initialState and the
\* debate view unmounts.  Nothing aborts the fetch of a call in flight: its
\* runTurn goes on awaiting the stream, with the model, stage, round and
\* retry count it captured.
ResetInFlight ==
  /\ page = "/debate"
  /\ \/ arenaShown /\ apiError # "none"
     \/ isComplete \/ stage = "result"
  /\ turn = NoTurn \/ Cardinality(orphans) < MaxOrphans
  /\ orphans' = IF turn = NoTurn THEN orphans ELSE orphans \cup {turn}
  /\ UNCHANGED server
  /\ topic' = ""
  /\ stage' = "topic-input"
  /\ round' = 0
  /\ messages' = <<>>
  /\ selectedModels' = <<>>
  /\ status' = [m \in Models |-> "idle"]
  /\ apiKey' = [m \in Models |-> ""]
  /\ tokenUsage' = [m \in Models |-> 0]
  /\ isPaused' = FALSE
  /\ isComplete' = FALSE
  /\ consensusReached' = FALSE
  /\ page' = "/"
  /\ isRunning' = FALSE
  /\ retryCount' = [m \in Models |-> 0]
  /\ apiError' = "none"
  /\ turn' = NoTurn
  /\ UNCHANGED <<showApiKeyModal, probe>>

\* The stream of a call of an unmounted view ended without an error: the
\* store operations of the try block act on the store as it is now; the
\* state setters of the unmounted view have no effect.
OrphanSuccess(o, c) ==
  /\ o \in orphans
  /\ Len(messages) < MaxResetLog
  /\ messages' = addMessage(messages, [model |-> o.model, content |-> c,
                                       stage |-> o.stage, round |-> o.round])
  /\ status' = setAIStatus(status, o.model, "complete")
  /\ tokenUsage' = updateTokenUsage(tokenUsage, o.model, tokenEstimate(c))
  /\ orphans' = orphans \ {o}
  /\ UNCHANGED server
  /\ UNCHANGED <<topic, stage, round, selectedModels, apiKey, isPaused,
                 isComplete, consensusReached, viewVars, probe>>

\* The call of an unmounted view failed on the credential
OrphanCredentialError(o) ==
  /\ o \in orphans
  /\ status' = setAIStatus(status, o.model, "abstained")
  /\ orphans' = orphans \ {o}
  /\ UNCHANGED server
  /\ UNCHANGED <<topic, stage, round, messages, selectedModels, apiKey,
                 tokenUsage, isPaused, isComplete, consensusReached, viewVars,
                 probe>>

\* The call of an unmounted view failed with any other message
OrphanTransientError(o) ==
  /\ o \in orphans
  /\ status' = setAIStatus(status, o.model,
                           IF o.retry < RETRY_CEILING THEN "idle"
                           ELSE "abstained")
  /\ orphans' = orphans \ {o}
  /\ UNCHANGED server
  /\ UNCHANGED <<topic, stage, round, messages, selectedModels, apiKey,
                 tokenUsage, isPaused, isComplete, consensusReached, viewVars,
                 probe>>

\* A successful end of the mounted view's call, on a log below the bound
TurnSuccessBounded(c) ==
  /\ Len(messages) < MaxResetLog
  /\ TurnSuccess(c)

NextReset ==
  \/ handleNext
  \/ handleBack
  \/ \E m \in Models : ToggleModel(m)
  \/ handleStart
  \/ \E m \in Models, k \in {"", "K"} : SetApiKey(m, k)
  \/ onClose
  \/ handleStartDebate
  \/ RunTurn
  \/ \E c \in Contents : TurnSuccessBounded(c)
  \/ TurnCredentialError
  \/ TurnTransientError
  \/ TogglePause
  \/ ResetInFlight
  \/ \E o \in orphans, c \in Contents : OrphanSuccess(o, c)
  \/ \E o \in orphans : OrphanCredentialError(o)
  \/ \E o \in orphans : OrphanTransientError(o)

SpecReset == Init /\ [][NextReset]_vars

\* ------------------------------------ the context builder on drawn inputs
ContextMessages == [model : {"gpt", "gemini"}, content : Contents,
                    stage : {"position"}, round : {0}]

\* A log as getNextTurn passes it, drawn from bounded sets
InitContext ==
  /\ topic = "T"
  /\ stage = "position"
  /\ round = 0
  /\ messages \in SeqsUpTo(ContextMessages, MaxContextLen)
  /\ selectedModels = <<"gpt", "gemini">>
  /\ status = [m \in Models |-> "idle"]
  /\ apiKey = [m \in Models |-> "K"]
  /\ tokenUsage = [m \in Models |-> 0]
  /\ isPaused = FALSE
  /\ isComplete = FALSE
  /\ consensusReached = FALSE
  /\ page = "/debate"
  /\ showApiKeyModal = FALSE
  /\ isRunning = FALSE
  /\ retryCount = [m \in Models |-> 0]
  /\ apiError = "none"
  /\ turn = NoTurn
  /\ probe = NoProbe
  /\ orphans = {}
  /\ server = NoServer

\* One call of buildContextMessages(messages, currentModel)
ProbeContext(currentModel) ==
  /\ ~probe.called
  /\ probe' = [called |-> TRUE, consensus |-> FALSE, can |-> FALSE,
               currentModel |-> currentModel,
               context |-> buildContextMessages(messages, currentModel)]
  /\ UNCHANGED <<storeVars, viewVars, orphans, server>>

NextContext == \E currentModel \in Models : ProbeContext(currentModel)

SpecContext == InitContext /\ [][NextContext]_vars

\* ------------------------------------- runTurn's decision on drawn inputs
DecideMessages == [model : Models, content : {Plain},
                   stage : {"position", "cross-exam"}, round : {1}]

\* A config as runTurn builds it, drawn from bounded sets
InitDecide ==
  /\ topic = "T"
  /\ stage \in {"model-select", "position", "cross-exam", "result"}
  /\ round \in 0..4
  /\ messages \in SeqsUpTo(DecideMessages, MaxDecideLen)
  /\ selectedModels \in PureSelections
  /\ status = [m \in Models |-> "idle"]
  /\ apiKey = [m \in Models |-> "K"]
  /\ tokenUsage = [m \in Models |-> 0]
  /\ isPaused = FALSE
  /\ isComplete = FALSE
  /\ consensusReached = FALSE
  /\ page = "/debate"
  /\ showApiKeyModal = FALSE
  /\ isRunning = FALSE
  /\ retryCount = [m \in Models |-> 0]
  /\ apiError = "none"
  /\ turn = NoTurn
  /\ probe = NoProbe
  /\ orphans = {}
  /\ server = NoServer

\* One evaluation of runTurn's checks and of getNextTurn(config)
ProbeDecide ==
  /\ ~probe.called
  /\ probe' = [called |-> TRUE, consensus |-> checkConsensus(Config),
               can |-> canReachConsensus(round),
               decision |-> decide(Config), next |-> getNextTurn(Config)]
  /\ UNCHANGED <<storeVars, viewVars, orphans, server>>

NextDecide == ProbeDecide

SpecDecide == InitDecide /\ [][NextDecide]_vars

\* ----------------------------------------- streams that may carry no text
\* A session in which a stream may also end without a content fragment
\* (only '[DONE]', or no data line at all), on a log below the bound
TurnSuccessShort(c) ==
  /\ Len(messages) < MaxEmptyLog
  /\ TurnSuccess(c)

NextEmpty ==
  \/ handleNext
  \/ handleBack
  \/ \E m \in Models : ToggleModel(m)
  \/ handleStart
  \/ \E m \in Models, k \in {"", "K"} : SetApiKey(m, k)
  \/ onClose
  \/ handleStartDebate
  \/ RunTurn
  \/ \E c \in Contents \cup {Empty} : TurnSuccessShort(c)
  \/ TurnCredentialError
  \/ TurnTransientError
  \/ TogglePause
  \/ Reset

SpecEmpty == Init /\ [][NextEmpty]_vars

\* ------------------------------------------- streams drawn event by event
NextStream ==
  \/ handleNext
  \/ handleBack
  \/ \E m \in Models : ToggleModel(m)
  \/ handleStart
  \/ \E m \in Models, k \in {"", "K"} : SetApiKey(m, k)
  \/ onClose
  \/ handleStartDebate
  \/ RunTurn
  \/ \E events \in Streams : TurnStream(events)
  \/ TogglePause
  \/ Reset

SpecStream == Init /\ [][NextStream]_vars

\* ------------------------------------------------- the summarize endpoint
\* modelPriority with gpt tried first
modelPriority_GptFirst == <<"gpt", "claude", "gemini">>

\* POST /api/summarize: modelPriority
modelPriority == <<"claude", "gpt", "gemini">>

NoResponse == [status |-> 0]

\* A request of the result page: the topic, the log and the keys of the
\* store (apiKeys holds the keys that are not empty), drawn from bounded
\* sets; the handler stands before the first model of the priority list
InitSummarize ==
  /\ topic = "T"
  /\ stage = "result"
  /\ round = MIN_CONSENSUS_ROUND
  /\ messages \in SeqsUpTo(ContextMessages, MaxSummarizeLen)
  /\ selectedModels = <<"gpt", "gemini">>
  /\ status = [m \in Models |-> "complete"]
  /\ apiKey \in [Models -> {"", "K"}]
  /\ tokenUsage = [m \in Models |-> 0]
  /\ isPaused = FALSE
  /\ isComplete = TRUE
  /\ consensusReached = TRUE
  /\ page = "/debate"
  /\ showApiKeyModal = FALSE
  /\ isRunning = FALSE
  /\ retryCount = [m \in Models |-> 0]
  /\ apiError = "none"
  /\ turn = NoTurn
  /\ probe = NoProbe
  /\ orphans = {}
  /\ server = [pc |-> "summarize", i |-> 1, tried |-> <<>>,
               response |-> NoResponse]

\* for (const model of modelPriority): `if (!apiKey) continue`
SummarizeSkip ==
  /\ server.pc = "summarize"
  /\ server.i <= Len(modelPriority)
  /\ apiKey[modelPriority[server.i]] = ""
  /\ server' = [server EXCEPT !.i = @ + 1]
  /\ UNCHANGED <<storeVars, viewVars, probe, orphans>>

\* The call of the model's summarizeWith function: it returns a summary
\* (the handler responds with it and the model) or throws (the handler
\* logs the error and goes on to the next model)
SummarizeCall(outcome, summary) ==
  /\ server.pc = "summarize"
  /\ server.i <= Len(modelPriority)
  /\ apiKey[modelPriority[server.i]] # ""
  /\ server' =
       IF outcome = "returns"
       THEN [server EXCEPT
               !.pc = "done",
               !.tried = Append(@, modelPriority[server.i]),
               !.response = [status |-> 200, summary |-> summary,
                             model |-> modelPriority[server.i]]]
       ELSE [server EXCEPT
               !.i = @ + 1,
               !.tried = Append(@, modelPriority[server.i])]
  /\ UNCHANGED <<storeVars, viewVars, probe, orphans>>

\* After the loop: the 400 response
SummarizeNone ==
  /\ server.pc = "summarize"
  /\ server.i > Len(modelPriority)
  /\ server' = [server EXCEPT
                  !.pc = "done",
                  !.response =
                    [status |-> 400,
                     error |-> "No available API key for summarization"]]
  /\ UNCHANGED <<storeVars, viewVars, probe, orphans>>

NextSummarize ==
  \/ SummarizeSkip
  \/ \E outcome \in {"returns", "throws"}, summary \in {Empty, Plain} :
       SummarizeCall(outcome, summary)
  \/ SummarizeNone

SpecSummarize == InitSummarize /\ [][NextSummarize]_vars

\* ------------------------------------------------------ the chat endpoint
\* POST /api/chat for a body that parses: the stream's start() runs the
\* generator of streamChat(body); out is what it has enqueued, closes the
\* number of calls of controller.close() so far
InitChat ==
  /\ topic = "T"
  /\ stage = "position"
  /\ round = 0
  /\ messages = <<>>
  /\ selectedModels = <<"gpt", "gemini">>
  /\ status = [m \in Models |-> "idle"]
  /\ apiKey = [m \in Models |-> "K"]
  /\ tokenUsage = [m \in Models |-> 0]
  /\ isPaused = FALSE
  /\ isComplete = FALSE
  /\ consensusReached = FALSE
  /\ page = "/debate"
  /\ showApiKeyModal = FALSE
  /\ isRunning = FALSE
  /\ retryCount = [m \in Models |-> 0]
  /\ apiError = "none"
  /\ turn = NoTurn
  /\ probe = NoProbe
  /\ orphans = {}
  /\ \E m \in Models \cup {"unknown"} :
       server = [pc |-> "chat", model |-> m, generator |-> "running",
                 out |-> <<>>, closes |-> 0]

\* for await (const chunk of streamChat(body)): a chunk is enqueued as a
\* content event (no case of streamChat's switch yields for another model)
ChatYield ==
  /\ server.pc = "chat"
  /\ server.model \in Models
  /\ Len(server.out) < MaxChunks
  /\ server' = [server EXCEPT !.out = Append(@, "content")]
  /\ UNCHANGED <<storeVars, viewVars, probe, orphans>>

\* The generator returns: '[DONE]' is enqueued and the stream is closed
ChatReturn ==
  /\ server.pc = "chat"
  /\ server' = [server EXCEPT !.pc = "closed", !.generator = "returned",
                              !.out = Append(@, "done"), !.closes = @ + 1]
  /\ UNCHANGED <<storeVars, viewVars, probe, orphans>>

\* ChatThrow that leaves the stream open
ChatThrow_Unclosed(e) ==
  /\ server.pc = "chat"
  /\ server.model \in Models
  /\ server' = [server EXCEPT !.pc = "closed", !.generator = "threw",
                              !.out = Append(@, e)]
  /\ UNCHANGED <<storeVars, viewVars, probe, orphans>>

\* The generator throws (the provider's client rejects, before the first
\* chunk or between two chunks): the catch enqueues an error event with
\* the error's message and closes the stream
ChatThrow(e) ==
  /\ server.pc = "chat"
  /\ server.model \in Models
  /\ server' = [server EXCEPT !.pc = "closed", !.generator = "threw",
                              !.out = Append(@, e), !.closes = @ + 1]
  /\ UNCHANGED <<storeVars, viewVars, probe, orphans>>

NextChat ==
  \/ ChatYield
  \/ ChatReturn
  \/ \E e \in ErrorEvents : ChatThrow(e)

SpecChat == InitChat /\ [][NextChat]_vars

\* ------------------------------------- the debate view after a reset
\* handleNewDebate, or the button of the error dialog: reset() returns the
\* store to initialState and router.push('/') asks for the navigation; the
\* debate view stays mounted, with its own state and its effects, until
\* the route has changed
ResetStore ==
  /\ page = "/debate"
  /\ topic # ""
  /\ Len(selectedModels) >= 2
  /\ \/ arenaShown /\ apiError # "none"
     \/ isComplete \/ stage = "result"
  /\ turn = NoTurn
  /\ topic' = ""
  /\ stage' = "topic-input"
  /\ round' = 0
  /\ messages' = <<>>
  /\ selectedModels' = <<>>
  /\ status' = [m \in Models |-> "idle"]
  /\ apiKey' = [m \in Models |-> ""]
  /\ tokenUsage' = [m \in Models |-> 0]
  /\ isPaused' = FALSE
  /\ isComplete' = FALSE
  /\ consensusReached' = FALSE
  /\ UNCHANGED <<viewVars, probe, orphans, server>>

\* The route has changed: the debate view unmounts (the cleanup of the
\* scheduling effect clears its timer) and its state is gone
Unmount ==
  /\ page = "/debate"
  /\ topic = ""
  /\ turn = NoTurn
  /\ page' = "/"
  /\ isRunning' = FALSE
  /\ retryCount' = [m \in Models |-> 0]
  /\ apiError' = "none"
  /\ UNCHANGED <<storeVars, showApiKeyModal, turn, probe, orphans, server>>

\* A successful end of a call, on a log below the bound
TurnSuccessWindow(c) ==
  /\ Len(messages) < MaxWindowLog
  /\ TurnSuccess(c)

NextWindow ==
  \/ handleNext
  \/ handleBack
  \/ \E m \in Models : ToggleModel(m)
  \/ handleStart
  \/ \E m \in Models, k \in {"", "K"} : SetApiKey(m, k)
  \/ onClose
  \/ handleStartDebate
  \/ RunTurn
  \/ \E c \in Contents : TurnSuccessWindow(c)
  \/ TurnCredentialError
  \/ TurnTransientError
  \/ TogglePause
  \/ ResetStore
  \/ Unmount

SpecWindow == Init /\ [][NextWindow]_vars

\* ------------------------------------- the proposal of a consensus turn
\* getNextTurn(config) at the consensus stage, on drawn logs
ProposalMessages == [model : Models, content : {Plain, Marked, Late},
                     stage : {"common-ground", "consensus"},
                     round : {MIN_CONSENSUS_ROUND}]

InitProposal ==
  /\ topic = "T"
  /\ stage = "consensus"
  /\ round = MIN_CONSENSUS_ROUND
  /\ messages \in SeqsUpTo(ProposalMessages, MaxProposalLen)
  /\ selectedModels \in PureSelections
  /\ status = [m \in Models |-> "idle"]
  /\ apiKey = [m \in Models |-> "K"]
  /\ tokenUsage = [m \in Models |-> 0]
  /\ isPaused = FALSE
  /\ isComplete = FALSE
  /\ consensusReached = FALSE
  /\ page = "/debate"
  /\ showApiKeyModal = FALSE
  /\ isRunning = FALSE
  /\ retryCount = [m \in Models |-> 0]
  /\ apiError = "none"
  /\ turn = NoTurn
  /\ probe = NoProbe
  /\ orphans = {}
  /\ server = NoServer

\* One evaluation of checkConsensus(config) and of the currentConsensus
\* that getNextTurn(config) puts into the prompt
ProbeProposal ==
  /\ ~probe.called
  /\ probe' = [called |-> TRUE, consensus |-> checkConsensus(Config),
               can |-> canReachConsensus(round),
               currentConsensus |-> findCurrentConsensus(messages)]
  /\ UNCHANGED <<storeVars, viewVars, orphans, server>>

NextProposal == ProbeProposal

SpecProposal == InitProposal /\ [][NextProposal]_vars

\* ------------------------------------------------- sessions left to run
\* A debate that is neither paused nor reset: every armed tick runs (the
\* effect's timer fires), and every call ends, in success or in failure.
TurnEnds ==
  \/ \E c \in Contents : TurnSuccess(c)
  \/ TurnCredentialError
  \/ TurnTransientError

NextLive ==
  \/ handleNext
  \/ handleBack
  \/ \E m \in Models : ToggleModel(m)
  \/ handleStart
  \/ \E m \in Models, k \in {"", "K"} : SetApiKey(m, k)
  \/ onClose
  \/ handleStartDebate
  \/ RunTurn
  \/ TurnEnds

SpecLive ==
  Init /\ [][NextLive]_vars /\ WF_vars(RunTurn) /\ WF_vars(TurnEnds)

\* --------------------------------------------- calls that may never end
\* A debate that is neither paused nor reset, in which every armed tick
\* runs but a call may stay without a terminal event for ever: the ends of
\* a call are the provider's to deliver.
SpecHang == Init /\ [][NextLive]_vars /\ WF_vars(RunTurn)

\* ------------------------------------------------------------- claims
\* The place of a stage in the order of the session
StageIndex(s) ==
  CASE s = "topic-input" -> 0
    [] s = "model-select" -> 1
    [] s = "position" -> 2
    [] s = "cross-exam" -> 3
    [] s = "common-ground" -> 4
    [] s = "consensus" -> 5
    [] s = "result" -> 6

\* The selected models, as a set
Selected == {selectedModels[i] : i \in 1..Len(selectedModels)}

\* The indices of the consensus-stage utterances of model m
ConsensusIdx(m) ==
  {i \in 1..Len(messages) :
     messages[i].model = m /\ messages[i].stage = "consensus"}

\* Model m has a consensus-stage utterance and its latest carries the marker
LatestAgrees(m) ==
  /\ ConsensusIdx(m) # {}
  /\ \E i \in ConsensusIdx(m) :
       /\ \A j \in ConsensusIdx(m) : j <= i
       /\ messages[i].content.at >= 0

\* The number of utterances committed for the current (stage, round)
SpokenNow ==
  Cardinality({i \in 1..Len(messages) :
                 messages[i].stage = stage /\ messages[i].round = round})

\* C1: from stage position on, and unless the session is reset, every step
\* that changes the stage moves it to a later stage of the order position,
\* cross-exam, common-ground, consensus, result: the stage index never
\* decreases, so no stage is entered twice or revisited.
C1_StageForward ==
  [][(StageIndex(stage) >= 2 /\ ~Reset)
       => /\ StageIndex(stage') >= StageIndex(stage)
          /\ stage' # stage => StageIndex(stage') > StageIndex(stage)]_vars

\* A session that walked through every stage and ended without consensus
C1_Witness ==
  /\ stage = "result"
  /\ isComplete
  /\ ~consensusReached
  /\ \A k \in {"position", "cross-exam", "common-ground", "consensus"} :
       \E i \in 1..Len(messages) : messages[i].stage = k

\* C2: a tick of a session that is neither paused nor complete applies
\* exactly one of: complete with consensus, advance the stage (or complete
\* without consensus), advance the round, start a turn; the one applied is
\* the first, in this order, whose condition holds, and a turn is started
\* only when checkConsensus, shouldAdvanceStage and shouldAdvanceRound are
\* all false.
C2_OneActionByPriority ==
  [][RunTurn =>
       LET consensus == checkConsensus(Config)
           advStage == round >= maxRounds(stage)
           advRound == SpokenNow >= Len(selectedModels)
           doneYes == isComplete' /\ consensusReached'
           doneNo == isComplete' /\ ~consensusReached'
           staged == ~isComplete' /\ stage' # stage
           rounded == stage' = stage /\ round' = round + 1
           started == isRunning' /\ turn' # NoTurn
           applied == {k \in 1..5 :
                         \/ k = 1 /\ doneYes
                         \/ k = 2 /\ doneNo
                         \/ k = 3 /\ staged
                         \/ k = 4 /\ rounded
                         \/ k = 5 /\ started}
       IN /\ Cardinality(applied) = 1
          /\ consensus => doneYes
          /\ (~consensus /\ advStage) => (doneNo \/ staged)
          /\ (~consensus /\ ~advStage /\ advRound) => rounded
          /\ started => (~consensus /\ ~advStage /\ ~advRound)]_vars

\* Consensus was declared by a tick at which the round was also full
C2_Witness ==
  /\ consensusReached
  /\ Cardinality({i \in 1..Len(messages) :
                    messages[i].stage = "consensus"
                      /\ messages[i].round = round})
       >= Len(selectedModels)

C4_AbstainedStaysOut ==
  [][\A m \in Models :
       (status[m] = "abstained" /\ ~Reset)
         => (status'[m] = "abstained" /\ turn'.model # m)]_vars

\* C5 (as claimed): a tick taken while some selected agent is abstained and
\* every non-abstained selected agent has spoken in the current (stage,
\* round) advances the round or the stage (or completes the session).
C5_NoWaitForAbstained ==
  [][(/\ RunTurn
      /\ \E m \in Selected : status[m] = "abstained"
      /\ \A m \in Selected :
           status[m] # "abstained" =>
             \E i \in 1..Len(messages) :
               /\ messages[i].model = m
               /\ messages[i].stage = stage
               /\ messages[i].round = round)
       => (round' # round \/ stage' # stage \/ isComplete')]_vars

\* C6 (as claimed): a started session that is neither paused nor reset, in
\* which every tick runs and every call ends, eventually is complete.
C6_EventuallyComplete == (stage = "position") ~> isComplete

\* C7: checkConsensus is false when the stage is not consensus or the round
\* is below 3, whatever the log holds, and canReachConsensus(round) is true
\* exactly for round >= 3.
C7_NoEarlyConsensus ==
  probe.called =>
    /\ (stage # "consensus" \/ round < 3) => ~probe.consensus
    /\ probe.can <=> round >= 3

\* checkConsensus was called in consensus round 2 on a log in which every
\* selected agent's latest consensus-stage utterance carries the marker
C7_Witness ==
  /\ probe.called
  /\ stage = "consensus"
  /\ round = 2
  /\ \A m \in Selected : LatestAgrees(m)
  /\ ~probe.consensus

\* C8 (as claimed): in stage consensus with round >= 3, checkConsensus is
\* true exactly when every selected agent that is not abstained has a
\* latest consensus-stage utterance that carries the marker.
C8_ConsensusOfNonAbstained ==
  (stage = "consensus" /\ round >= 3)
    => (checkConsensus(Config)
          <=> \A m \in Selected : status[m] # "abstained" => LatestAgrees(m))

\* C9: checkConsensus is false whenever some selected agent has no
\* consensus-stage utterance or its most recent one, of whatever round,
\* lacks the marker.
C9_NoPartialConsensus ==
  (probe.called /\ \E m \in Selected : ~LatestAgrees(m)) => ~probe.consensus

\* Consensus round 3, two agents: the latest consensus-stage utterance of
\* the first lacks the marker, that of the second carries it
C9_Witness ==
  /\ probe.called
  /\ stage = "consensus"
  /\ round = 3
  /\ Len(selectedModels) = 2
  /\ ConsensusIdx(selectedModels[1]) # {}
  /\ ~LatestAgrees(selectedModels[1])
  /\ LatestAgrees(selectedModels[2])
  /\ ~probe.consensus

\* C10: a turn that fails with an invalid-credential error sets the agent
\* abstained in that step, leaves every retry counter, the log and the
\* token usage unchanged, and records the error for that agent.
C10_CredentialFailure ==
  [][TurnCredentialError
       => /\ status'[turn.model] = "abstained"
          /\ retryCount' = retryCount
          /\ messages' = messages
          /\ tokenUsage' = tokenUsage
          /\ apiError' = turn.model]_vars

\* The first attempt of a session failed on the credential
C10_Witness ==
  /\ messages = <<>>
  /\ \E m \in Selected :
       /\ status[m] = "abstained"
       /\ retryCount[m] = 0
       /\ apiError = m
       /\ tokenUsage[m] = 0

\* C11: a turn that fails with a transient error while the agent's retry
\* counter is below 3 raises that counter by exactly one, returns the agent
\* to idle, and leaves the log and the token usage unchanged; in the state it
\* leaves, the decision of the controller is a turn for that same agent in
\* the (stage, round) of the failed turn.  And whenever the controller
\* starts a turn while an agent waits for a retry (idle, counter above 0),
\* the turn is that agent's.
C11_TransientRetry ==
  [][/\ (TurnTransientError /\ retryCount[turn.model] < 3)
          => /\ retryCount'[turn.model] = retryCount[turn.model] + 1
             /\ \A m \in Models \ {turn.model} :
                  retryCount'[m] = retryCount[m]
             /\ status'[turn.model] = "idle"
             /\ messages' = messages
             /\ tokenUsage' = tokenUsage
             /\ stage' = turn.stage /\ round' = turn.round
             /\ ~checkConsensus(Config)'
             /\ round' < maxRounds(stage')
             /\ SpokenNow' < Len(selectedModels')
             /\ getNextTurn(Config)' = turn.model
     /\ (RunTurn /\ turn' # NoTurn)
          => \A m \in Selected :
               (status[m] = "idle" /\ retryCount[m] > 0)
                 => /\ turn'.model = m
                    /\ turn'.stage = stage /\ turn'.round = round]_vars

\* An agent that failed twice is called a third time, in cross-exam
C11_Witness ==
  /\ turn # NoTurn
  /\ turn.retry = 2
  /\ turn.stage = "cross-exam"
  /\ status[turn.model] = "streaming"

\* C12: a turn whose stream ends without error appends exactly one
\* utterance (the agent, the text, the stage and round the session is in)
\* to the log, sets the agent complete, adds ceil(length / 4) to its token
\* usage and sets its retry counter to 0; the status, usage and retry
\* counter of every other agent stay as they were.
C12_SuccessCommit ==
  [][\A c \in Contents :
       TurnSuccess(c)
         => /\ Len(messages') = Len(messages) + 1
            /\ \A i \in 1..Len(messages) : messages'[i] = messages[i]
            /\ messages'[Len(messages')] =
                 [model |-> turn.model, content |-> c,
                  stage |-> stage, round |-> round]
            /\ status'[turn.model] = "complete"
            /\ \E n \in 0..c.len :
                 /\ 4 * n >= c.len
                 /\ 4 * (n - 1) < c.len
                 /\ tokenUsage'[turn.model] = tokenUsage[turn.model] + n
            /\ retryCount'[turn.model] = 0
            /\ \A m \in Models \ {turn.model} :
                 /\ status'[m] = status[m]
                 /\ tokenUsage'[m] = tokenUsage[m]
                 /\ retryCount'[m] = retryCount[m]]_vars

\* The second utterance of the log, of 5 characters, has been committed by
\* another agent than the first: its usage is 2, its retry counter 0
C12_Witness ==
  /\ Len(messages) = 2
  /\ turn = NoTurn
  /\ messages[2].content = Plain
  /\ status[messages[2].model] = "complete"
  /\ tokenUsage[messages[2].model] = 2
  /\ retryCount[messages[2].model] = 0
  /\ messages[1].model # messages[2].model

\* C13: the execution of a turn, from its start to its end in success or
\* in either failure, leaves stage, round, isPaused, isComplete and
\* consensusReached (and topic, selection and keys) as they were; it
\* changes the status, usage and retry counter of the speaking agent only,
\* and the log only when it ends in success.
C13_TurnFrame ==
  [][((RunTurn /\ turn' # NoTurn) \/ TurnEnds)
       => LET speaker == IF turn # NoTurn THEN turn.model ELSE turn'.model
          IN /\ UNCHANGED <<stage, round, isPaused, isComplete,
                            consensusReached, topic, selectedModels, apiKey>>
             /\ \A m \in Models \ {speaker} :
                  /\ status'[m] = status[m]
                  /\ tokenUsage'[m] = tokenUsage[m]
                  /\ retryCount'[m] = retryCount[m]
             /\ messages' # messages
                  => /\ turn # NoTurn
                     /\ status'[speaker] = "complete"
                     /\ \E c \in Contents : TurnSuccess(c)
             /\ status'[speaker] \in {"idle", "abstained", "streaming"}
                  => messages' = messages /\ tokenUsage' = tokenUsage]_vars

\* In consensus round 3 one agent has committed and another, after a
\* transient failure, has failed on its credential
C13_Witness ==
  /\ stage = "consensus"
  /\ round = 3
  /\ turn = NoTurn
  /\ SpokenNow = 1
  /\ \E m \in Selected : status[m] = "abstained" /\ retryCount[m] > 0

\* C14 (as claimed): every operation of the store other than reset leaves
\* the messages committed before it unchanged in content and position: the
\* log before the operation is a prefix of the log after it.
C14_AppendOnly ==
  [][~StoreReset
       => /\ Len(messages') >= Len(messages)
          /\ \A i \in 1..Len(messages) : messages'[i] = messages[i]]_vars

\* C15: while the session is paused or complete no tick acts: every step
\* taken then, other than the end of a call already in flight and a reset,
\* leaves stage, round, isComplete, consensusReached and every agent's
\* status unchanged and starts no turn.
C15_NoTickWhilePausedOrComplete ==
  [][((isPaused \/ isComplete) /\ ~TurnEnds /\ ~Reset)
       => /\ UNCHANGED <<stage, round, isComplete, consensusReached, status,
                         messages, isRunning>>
          /\ turn' = turn]_vars

\* A paused session in cross-exam with no call in flight and a turn due
C15_Witness ==
  /\ isPaused
  /\ turn = NoTurn
  /\ ~isRunning
  /\ stage = "cross-exam"
  /\ SpokenNow = 1
  /\ decide(Config) = "turn"

C17_NoCommitWhilePaused ==
  [][isPaused => Len(messages') <= Len(messages)]_vars

\* C18 (as claimed): from a reset until a new debate is started (no debate
\* view is mounted) the log is empty and every agent's status and token
\* usage have their initial values.
C18_ResetStaysClean ==
  page # "/debate"
    => /\ messages = <<>>
       /\ \A m \in Models : status[m] = "idle" /\ tokenUsage[m] = 0

\* C19 (as claimed): every call in flight ends: the turn it belongs to is
\* eventually resolved, even when the provider delivers no terminal event,
\* so the view does not stay running nor the agent streaming for ever.
C19_CallEventuallyEnds == (turn # NoTurn) ~> (turn = NoTurn)

\* C20: for every log and requesting agent, buildContextMessages returns
\* the last min(5, length) utterances of the log in log order, each with
\* its author's name as prefix and with role assistant exactly when its
\* author is the requesting agent, user otherwise; the log is unchanged.
C20_ContextWindow ==
  [][\A a \in Models :
       ProbeContext(a)
         => LET ctx == probe'.context
                n == Len(messages)
                k == IF n < 5 THEN n ELSE 5
            IN /\ Len(ctx) = k
               /\ Len(ctx) <= 5
               /\ \A i \in 1..k :
                    LET m == messages[n - k + i]
                    IN /\ ctx[i].content.text = m.content
                       /\ ctx[i].content.author = toUpperCase(m.model)
                       /\ ctx[i].role = "assistant" <=> m.model = a
                       /\ ctx[i].role = "user" <=> m.model # a
               /\ messages' = messages]_vars

\* A context built from a log of 6 utterances for an agent that wrote the
\* first and the last of them: 5 fragments, the first one another's
C20_Witness ==
  /\ probe.called
  /\ Len(messages) = 6
  /\ Len(probe.context) = 5
  /\ messages[1].model = probe.currentModel
  /\ messages[6].model = probe.currentModel
  /\ messages[2].model # probe.currentModel
  /\ messages[1].content # messages[2].content
  /\ probe.context[1].role = "user"
  /\ probe.context[5].role = "assistant"

\* C21: whenever getNextTurn produces a turn, the agent chosen is the first
\* in the order of selectedModels that has no committed utterance for the
\* current (stage, round); an agent that has spoken there is never chosen;
\* the choice is a function of selectedModels, the log, stage and round.
C21_FirstUnspoken ==
  probe.called
    => LET spoke(m) == \E i \in 1..Len(messages) :
                          /\ messages[i].model = m
                          /\ messages[i].stage = stage
                          /\ messages[i].round = round
           debating == stage \in {"position", "cross-exam",
                                  "common-ground", "consensus"}
       IN /\ probe.next # "none"
               => /\ debating
                  /\ \E i \in 1..Len(selectedModels) :
                       /\ selectedModels[i] = probe.next
                       /\ ~spoke(probe.next)
                       /\ \A j \in 1..(i - 1) : spoke(selectedModels[j])
          /\ probe.next = "none"
               => \/ ~debating
                  \/ \A i \in 1..Len(selectedModels) :
                       spoke(selectedModels[i])

\* Three agents, the first and the third have spoken in the current round:
\* the turn goes to the second
C21_Witness ==
  /\ probe.called
  /\ Len(selectedModels) = 3
  /\ stage = "cross-exam"
  /\ round = 1
  /\ Len(messages) = 3
  /\ messages[1].model = selectedModels[3]
  /\ messages[1].stage = "cross-exam"
  /\ messages[2].model = selectedModels[1]
  /\ messages[2].stage = "cross-exam"
  /\ messages[3].stage = "position"
  /\ probe.next = selectedModels[2]

\* C22 (as claimed): with two agents, stage position, round 1 and no
\* utterance yet, the decision of the scheduler is a turn for the first
\* selected agent.
C22_FirstTurnAtRoundOne ==
  (/\ probe.called
   /\ Len(selectedModels) = 2
   /\ stage = "position"
   /\ round = 1
   /\ messages = <<>>)
    => /\ probe.decision = "turn"
       /\ probe.next = selectedModels[1]

\* C23: whenever consensus is not detected and the round has reached the
\* maxRounds of position, cross-exam or common-ground, the tick moves the
\* session to the immediately following stage and sets round to 1; no
\* stage is skipped, and the transition leaves the log unchanged.
C23_StageAdvance ==
  [][/\ (/\ RunTurn
         /\ ~checkConsensus(Config)
         /\ stage \in {"position", "cross-exam", "common-ground"}
         /\ round >= maxRounds(stage))
        => /\ StageIndex(stage') = StageIndex(stage) + 1
           /\ round' = 1
           /\ messages' = messages
     /\ (/\ stage' # stage
         /\ stage \in {"position", "cross-exam", "common-ground"}
         /\ stage' \in {"position", "cross-exam", "common-ground",
                        "consensus", "result"})
        => /\ StageIndex(stage') = StageIndex(stage) + 1
           /\ round >= maxRounds(stage)
           /\ round' = 1
           /\ messages' = messages]_vars

\* The session has just moved from common-ground to consensus: round 1,
\* nothing said in the stage yet, the log ends with common-ground
C23_Witness ==
  /\ stage = "consensus"
  /\ round = 1
  /\ turn = NoTurn
  /\ SpokenNow = 0
  /\ Len(messages) > 0
  /\ messages[Len(messages)].stage = "common-ground"
  /\ \E i \in 1..Len(messages) : messages[i].stage = "cross-exam"
  /\ messages[1].stage = "position"

\* C24: when the round of the consensus stage reaches 15 without consensus
\* detected, the tick completes the session with isComplete = TRUE,
\* consensusReached = FALSE and stage = result; consensusReached becomes
\* TRUE only in a tick whose consensus check succeeds.
C24_ExhaustionCompletes ==
  [][/\ (/\ RunTurn
         /\ stage = "consensus"
         /\ round >= 15
         /\ ~checkConsensus(Config))
        => /\ isComplete'
           /\ ~consensusReached'
           /\ stage' = "result"
     /\ (consensusReached' /\ ~consensusReached)
        => /\ RunTurn
           /\ checkConsensus(Config)
           /\ isComplete'
           /\ stage' = "result"]_vars

\* A session completed at round 15 of consensus without an agreement
C24_Witness ==
  /\ isComplete
  /\ ~consensusReached
  /\ stage = "result"
  /\ round = 15
  /\ \E i \in 1..Len(messages) :
       messages[i].stage = "consensus" /\ messages[i].round = 14

\* C25 (as claimed): in a session where no turn has failed and consensus is
\* not detected, each agent speaks in exactly as many rounds of a stage as
\* its maxRounds: once in position, in 4 rounds of cross-exam, in 2 rounds of
\* common-ground, and in at most 15 rounds of consensus.
C25_RoundsPerStage ==
  (/\ page = "/debate"
   /\ ~consensusReached
   /\ apiError = "none"
   /\ \A m \in Selected : retryCount[m] = 0)
    => \A m \in Selected :
         LET rounds(s) == {messages[i].round :
                             i \in {j \in 1..Len(messages) :
                                      /\ messages[j].model = m
                                      /\ messages[j].stage = s}}
         IN /\ \A s \in {"position", "cross-exam", "common-ground"} :
                 StageIndex(stage) > StageIndex(s)
                   => Cardinality(rounds(s)) = maxRounds(s)
            /\ Cardinality(rounds("consensus")) <= maxRounds("consensus")

C28_ConsensusTextExtracted ==
  (/\ page = "/debate"
   /\ isComplete
   /\ consensusReached
   /\ \E j \in 1..Len(messages) :
        messages[j].stage = "consensus" /\ messages[j].content.at = 0)
    => LET text == extractConsensusFromAll(messages, selectedModels)
       IN /\ text # <<>>
          /\ \E i \in 1..Len(text) : text[i].len > 0
          /\ \A i \in 1..Len(text) :
               \E j \in 1..Len(messages) :
                 /\ messages[j].stage = "consensus"
                 /\ messages[j].content.at = 0
                 /\ text[i].of = messages[j].content

\* C29: a transient failure makes an agent abstained only when its retry
\* counter has already reached the ceiling 3 (three failed attempts were
\* counted before this one); below the ceiling it only counts the failure;
\* and every agent's retry counter lies in 0..3 in every reachable state.
C29_AbstainAtCeiling ==
  [][/\ \A m \in Models : retryCount[m] \in 0..3 /\ retryCount'[m] \in 0..3
     /\ TurnTransientError
          => /\ status'[turn.model] = "abstained"
                  <=> retryCount[turn.model] = 3
             /\ retryCount[turn.model] < 3
                  => /\ retryCount'[turn.model] = retryCount[turn.model] + 1
                     /\ apiError' = apiError]_vars

\* The second selected agent stands abstained with its counter at 3 while
\* the first has spoken in the round
C29_Witness ==
  /\ Len(selectedModels) = 2
  /\ status[selectedModels[2]] = "abstained"
  /\ retryCount[selectedModels[2]] = 3
  /\ apiError = selectedModels[2]
  /\ retryCount[selectedModels[1]] = 0
  /\ SpokenNow = 1
  /\ turn = NoTurn

\* C30 (as claimed): no committed utterance has an empty content: a turn
\* whose stream completes without any text fragment appends nothing to the
\* log.
C30_NoEmptyUtterance ==
  \A i \in 1..Len(messages) : messages[i].content.len > 0

\* C31 (as claimed): if the stream of a turn delivers an error event, at any
\* point and whatever its message, the turn fails: no utterance is
\* committed for it and the agent's status does not become complete.
C31_ErrorEventFails ==
  [][\A events \in Streams :
       (/\ TurnStream(events)
        /\ \E i \in 1..Len(events) : events[i] \in ErrorEvents)
         => /\ messages' = messages
            /\ status'[turn.model] # "complete"]_vars

\* C32: the summarize endpoint tries the models in the order claude, gpt,
\* gemini and skips a model without a key; it responds with the summary and
\* the name of the first model whose call returns, goes on to the next
\* model when a call throws, and responds with the 400 error 'No available
\* API key for summarization' exactly when every model lacks a key or has
\* failed.
C32_SummarizePriority ==
  LET order == <<"claude", "gpt", "gemini">>
      keyed(n) == SelectSeq(SubSeq(order, 1, n), LAMBDA m : apiKey[m] # "")
  IN /\ server.pc = "summarize"
          => /\ server.tried = keyed(server.i - 1)
             /\ server.response = NoResponse
     /\ server.pc = "done"
          => /\ server.response.status \in {200, 400}
             /\ server.response.status = 200
                  => \E n \in 1..3 :
                       /\ server.response.model = order[n]
                       /\ apiKey[order[n]] # ""
                       /\ server.tried = keyed(n)
             /\ server.response.status = 400
                  => /\ server.response.error
                          = "No available API key for summarization"
                     /\ server.tried = keyed(3)

\* claude's call failed, gpt has no key, gemini's call returned a summary
C32_Witness ==
  /\ server.pc = "done"
  /\ server.response.status = 200
  /\ server.response.model = "gemini"
  /\ server.response.summary = Plain
  /\ server.tried = <<"claude", "gemini">>
  /\ apiKey["gpt"] = ""

\* C33: for every /api/chat request whose body parses, the response stream
\* is zero or more content events followed by exactly one terminal event,
\* '[DONE]' if the generation finished and an error event if it threw,
\* after which the stream is closed exactly once; no content event follows
\* the terminal event, and '[DONE]' and an error event never both occur.
C33_OneTerminalEvent ==
  server.pc \in {"chat", "closed"}
    => LET out == server.out
           terminal == {i \in 1..Len(out) : out[i] # "content"}
       IN /\ server.pc = "chat"
               => /\ terminal = {}
                  /\ server.closes = 0
                  /\ server.generator = "running"
          /\ server.pc = "closed"
               => /\ terminal = {Len(out)}
                  /\ server.closes = 1
                  /\ server.generator \in {"returned", "threw"}
                  /\ server.generator = "returned"
                       <=> out[Len(out)] = "done"
                  /\ server.generator = "threw"
                       <=> out[Len(out)] \in ErrorEvents

\* Two content events, then the provider failed: one error event, closed
C33_Witness ==
  /\ server.pc = "closed"
  /\ server.generator = "threw"
  /\ server.out = <<"content", "content", "error-other">>
  /\ server.closes = 1

\* C34 (as claimed): in every reachable state each agent has at most one
\* committed utterance per (stage, round), so the progress reported by
\* getStageProgress satisfies 0 <= current <= max, max being the number of
\* selected agents.
C34_OneUtterancePerRound ==
  /\ \A i, j \in 1..Len(messages) :
       (/\ messages[i].model = messages[j].model
        /\ messages[i].stage = messages[j].stage
        /\ messages[i].round = messages[j].round) => i = j
  /\ getStageProgress(Config).current >= 0
  /\ getStageProgress(Config).current <= getStageProgress(Config).max
  /\ getStageProgress(Config).max = Len(selectedModels)

C37_LogInProtocolOrder ==
  \A i, j \in 1..Len(messages) :
    i < j
      => /\ StageIndex(messages[i].stage) <= StageIndex(messages[j].stage)
         /\ messages[i].stage = messages[j].stage
              => messages[i].round <= messages[j].round
         /\ (/\ messages[i].stage = messages[j].stage
             /\ messages[i].round = messages[j].round)
              => \A a, b \in 1..Len(selectedModels) :
                   (/\ selectedModels[a] = messages[i].model
                    /\ selectedModels[b] = messages[j].model) => a <= b

\* C38 (as claimed): a tick taken while the stage is topic-input,
\* model-select or result (as in the window after a reset while the debate
\* view is still mounted) starts no turn and changes neither stage, round
\* nor the completion flags; it never moves the session into position.
C38_NoTickOutsideDebate ==
  [][(RunTurn /\ stage \in {"topic-input", "model-select", "result"})
       => /\ turn' = turn
          /\ stage' = stage
          /\ round' = round
          /\ isComplete' = isComplete
          /\ consensusReached' = consensusReached
          /\ stage' # "position"]_vars

\* C39: the proposal handed to a consensus-stage turn is the most recent
\* consensus-stage utterance that checkConsensus would not count as
\* agreement (its content holds no marker), and none if there is no such
\* utterance; an utterance counted as agreement is never the proposal.
C39_ProposalNotAgreement ==
  probe.called =>
    LET open == {i \in 1..Len(messages) :
                   /\ messages[i].stage = "consensus"
                   /\ ~includesMarker(messages[i].content)}
        p == probe.currentConsensus
    IN /\ p.found => ~includesMarker(p.content)
       /\ p.found <=> open # {}
       /\ p.found =>
            p.content = messages[CHOOSE i \in open :
                                   \A j \in open : j <= i].content

====
